---------------------------- MODULE Spec2Model ----------------------------
(***************************************************************************)
(* State-machine model of MicroBitCompass (source/MicroBitCompass.cpp):    *)
(* the MAG3110 magnetometer driver of the micro:bit runtime.  The model    *)
(* covers the calibration state machine, the data-ready poll (idleTick),   *)
(* the persisted offset registers of the sensor and heading().             *)
(***************************************************************************)
EXTENDS Integers, Sequences, FiniteSets, TLC

(***************************************************************************)
(* Bounds of the model.                                                    *)
(***************************************************************************)
\* Largest value of the system tick counter that is explored.
MaxTick == 4

\* The calibration window MICROBIT_COMPASS_CALIBRATE_PERIOD (set in
\* MicroBitCompass.h), in ticks, scaled down to a few ticks so that a
\* deadline can elapse within MaxTick.
MICROBIT_COMPASS_CALIBRATE_PERIOD == 1

(***************************************************************************)
(* Status flags, notifications and return tags.                            *)
(***************************************************************************)
MICROBIT_COMPASS_STATUS_CALIBRATED  == "CALIBRATED"
MICROBIT_COMPASS_STATUS_CALIBRATING == "CALIBRATING"

MICROBIT_COMPASS_EVT_CAL_REQUIRED == "CAL_REQUIRED"
MICROBIT_COMPASS_EVT_CAL_START    == "CAL_START"
MICROBIT_COMPASS_EVT_CAL_END      == "CAL_END"

\* What heading() returns: a degree value or one of the two sentinels.
\* Void operations leave NoRet.
NoRet == [tag |-> "none", deg |-> 0]
MICROBIT_COMPASS_IS_CALIBRATING     == [tag |-> "IS_CALIBRATING", deg |-> 0]
MICROBIT_COMPASS_CALIBRATE_REQUIRED == [tag |-> "CALIBRATE_REQUIRED", deg |-> 0]
Degrees(d) == [tag |-> "degrees", deg |-> d]

(***************************************************************************)
(* CompassSample: three signed 16-bit axes.                                *)
(***************************************************************************)
Sample3(a, b, c) == [x |-> a, y |-> b, z |-> c]
ZeroSample == Sample3(0, 0, 0)

\* Values the sensor's data registers deliver in the explored runs.  They
\* include both ends of the int16 range, odd and negative sums, and the
\* vectors of the heading examples.
Readings ==
    { Sample3(0, 10, 32767),
      Sample3(-10, 0, -32768),
      Sample3(0, -10, 1),
      Sample3(32767, -3, 32767) }

\* Contents an uninitialised CompassSample member may hold.
Indeterminate == { ZeroSample, Sample3(7, -32768, 2) }

\* Offsets found in the sensor's offset registers when the driver starts.
PersistedOffsets ==
    { ZeroSample, Sample3(0, 0, 5), Sample3(-3, -32768, 0) }

(***************************************************************************)
(* Integer conversions.                                                    *)
(***************************************************************************)
\* (int16_t) v : two's complement wrap to 16 bits.
ToInt16(v) == ((v + 32768) % 65536) - 32768

\* (uint8_t) v
ToUint8(v) == v % 256

\* v >> 8 on a (promoted) signed int: arithmetic shift.
Shr8(v) == v \div 256

\* Mutant of CDiv2: division rounding toward minus infinity.
CDiv2_Floor(v) == v \div 2

\* C integer division by two: truncation toward zero.
CDiv2(v) == IF v >= 0 THEN v \div 2 ELSE -((-v) \div 2)

Min2(a, b) == IF a < b THEN a ELSE b
Max2(a, b) == IF a > b THEN a ELSE b

(***************************************************************************)
(* The offset registers of the MAG3110 (the persistence layer).            *)
(***************************************************************************)
OffsetRegs == { "MAG_OFF_X_MSB", "MAG_OFF_X_LSB",
                "MAG_OFF_Y_MSB", "MAG_OFF_Y_LSB",
                "MAG_OFF_Z_MSB", "MAG_OFF_Z_LSB" }

\* Mutant of read16: the two bytes are concatenated the other way round.
read16_Swapped(msb, lsb) == ToInt16(msb + lsb * 256)

\* read16: two bytes starting at the MSB register; cmd[0] is the MSB and
\* cmd[1] the LSB: (int16_t)(cmd[1] | (cmd[0] << 8)).
read16(msb, lsb) == ToInt16(lsb + msb * 256)

\* The six writeCommand calls of calibrateEnd.
StoreOffset(avg) ==
    [r \in OffsetRegs |->
        CASE r = "MAG_OFF_X_LSB" -> ToUint8(avg.x)
          [] r = "MAG_OFF_X_MSB" -> ToUint8(Shr8(avg.x))
          [] r = "MAG_OFF_Y_LSB" -> ToUint8(avg.y)
          [] r = "MAG_OFF_Y_MSB" -> ToUint8(Shr8(avg.y))
          [] r = "MAG_OFF_Z_LSB" -> ToUint8(avg.z)
          [] r = "MAG_OFF_Z_MSB" -> ToUint8(Shr8(avg.z))]

\* Mutant of ClearedRegs: only the low bytes are cleared.
ClearedRegs_LsbOnly(rg) ==
    [r \in OffsetRegs |->
        IF r \in {"MAG_OFF_X_LSB", "MAG_OFF_Y_LSB", "MAG_OFF_Z_LSB"}
        THEN 0 ELSE rg[r]]

\* The six writeCommand calls of clearCalibration, on registers rg.
ClearedRegs(rg) == [r \in OffsetRegs |-> 0]

\* The three read16 calls of the constructor.
FetchOffset(rg) ==
    Sample3(read16(rg["MAG_OFF_X_MSB"], rg["MAG_OFF_X_LSB"]),
            read16(rg["MAG_OFF_Y_MSB"], rg["MAG_OFF_Y_LSB"]),
            read16(rg["MAG_OFF_Z_MSB"], rg["MAG_OFF_Z_LSB"]))

(***************************************************************************)
(* State.                                                                  *)
(***************************************************************************)
VARIABLES
    status,          \* set of status flags (the bits of this->status)
    eventStartTime,  \* calibration deadline start tick; 0: none
    ticks,           \* the system tick counter (external clock)
    sample,          \* latest reading
    average,         \* calibration offset
    minSample,       \* running minimum of the calibration session
    maxSample,       \* running maximum of the calibration session
    regs,            \* the sensor's six offset registers (bytes)
    int1,            \* data-ready line as seen by the last idleTick
    evt,             \* notifications emitted by the last operation
    ret,             \* value returned by the last operation
    op,              \* the last operation
    atEvent,         \* what a handler of the last operation's notification
                     \* finds when it runs at the point of emission
    inSession,       \* history: calibrateStart called, calibrateEnd not yet
    asyncAt          \* history: tick of the calibrateAsync call of the
                     \* session in progress; -1: none

vars == << status, eventStartTime, ticks, sample, average, minSample,
           maxSample, regs, int1, evt, ret, op, atEvent, inSession, asyncAt >>

isCalibrated  == MICROBIT_COMPASS_STATUS_CALIBRATED \in status
isCalibrating == MICROBIT_COMPASS_STATUS_CALIBRATING \in status


(***************************************************************************)
(* heading(): atan2 in degrees.  A bearing is a real number; it is held as *)
(* its floor (whole) and whether it is a whole number of degrees (exact).  *)
(* For integer vectors the angle is a whole number of degrees only on the  *)
(* axes and the diagonals.                                                 *)
(***************************************************************************)
Abs(v) == IF v < 0 THEN -v ELSE v

\* floor(10000 * tan(k degrees)), k = 0 .. 44.
TanTab ==
    << 0, 174, 349, 524, 699, 874, 1051, 1227, 1405, 1583, 1763, 1943, 2125,
       2308, 2493, 2679, 2867, 3057, 3249, 3443, 3639, 3838, 4040, 4244,
       4452, 4663, 4877, 5095, 5317, 5543, 5773, 6008, 6248, 6494, 6745,
       7002, 7265, 7535, 7812, 8097, 8390, 8692, 9004, 9325, 9656 >>

Angle(w, e) == [whole |-> w, exact |-> e]

\* -a
NegAngle(a) ==
    IF a.exact THEN Angle(-a.whole, TRUE) ELSE Angle(-a.whole - 1, FALSE)

\* c + a for a whole number of degrees c
ShiftAngle(c, a) == Angle(c + a.whole, a.exact)

\* atan(n / d) in degrees for 0 <= n <= d, 0 < d: an angle in [0, 45].
AtanDeg(n, d) ==
    IF n = d THEN Angle(45, TRUE)
    ELSE LET k == CHOOSE j \in 0..44 :
                     /\ d * TanTab[j + 1] <= n * 10000
                     /\ (j = 44 \/ d * TanTab[j + 2] > n * 10000)
         IN  Angle(k, n = 0)

\* atan2(dy, dx) * 180 / PI, an angle in (-180, 180]; atan2(0, 0) is 0.
Atan2Deg(dy, dx) ==
    LET ay == Abs(dy)
        ax == Abs(dx)
        \* the angle of (ax, ay), in [0, 90]
        q  == IF ax = 0 /\ ay = 0 THEN Angle(0, TRUE)
              ELSE IF ay <= ax THEN AtanDeg(ay, ax)
              ELSE ShiftAngle(90, NegAngle(AtanDeg(ax, ay)))
        \* the angle of (dx, ay), in [0, 180]
        h  == IF dx >= 0 THEN q ELSE ShiftAngle(180, NegAngle(q))
    IN  IF dy >= 0 THEN h ELSE NegAngle(h)

\* Mutant of NormaliseBearing: negative bearings are left as they are.
NormaliseBearing_None(b) == b

\* if (bearing < 0) bearing += 360.0;
NormaliseBearing(b) == IF b.whole < 0 THEN ShiftAngle(360, b) ELSE b

\* (int)(360.0 - bearing): 360 - bearing is positive, truncation is floor.
CompassDegrees(b) == ShiftAngle(360, NegAngle(b)).whole

\* The degree value heading() computes from the sample and the offset.
Bearing(s, avg) ==
    CompassDegrees(NormaliseBearing(Atan2Deg(s.y - avg.y, s.x - avg.x)))

\* Mutant of HeadingResult: the calibration-required test comes first.
HeadingResult_RequiredFirst(st, s, avg) ==
    IF MICROBIT_COMPASS_STATUS_CALIBRATED \notin st
    THEN MICROBIT_COMPASS_CALIBRATE_REQUIRED
    ELSE IF MICROBIT_COMPASS_STATUS_CALIBRATING \in st
    THEN MICROBIT_COMPASS_IS_CALIBRATING
    ELSE Degrees(Bearing(s, avg))

\* Which branch heading() takes.
HeadingResult(st, s, avg) ==
    IF MICROBIT_COMPASS_STATUS_CALIBRATING \in st
    THEN MICROBIT_COMPASS_IS_CALIBRATING
    ELSE IF MICROBIT_COMPASS_STATUS_CALIBRATED \notin st
    THEN MICROBIT_COMPASS_CALIBRATE_REQUIRED
    ELSE Degrees(Bearing(s, avg))

\* The notification heading() emits.
HeadingEvents(st) ==
    IF /\ MICROBIT_COMPASS_STATUS_CALIBRATING \notin st
       /\ MICROBIT_COMPASS_STATUS_CALIBRATED \notin st
    THEN << MICROBIT_COMPASS_EVT_CAL_REQUIRED >>
    ELSE << >>

(***************************************************************************)
(* The state a notification handler finds.  MicroBitEvent(id, value) is    *)
(* raised at one point of an operation; a handler sees the members and the *)
(* registers as the statements before that point left them.                *)
(***************************************************************************)
\* The view at a MicroBitEvent: status, offset, offset registers and the
\* register writes the operation has made so far.
EventView(st, avg, rg, ws) ==
    [fired |-> TRUE, status |-> st, average |-> avg, regs |-> rg,
     writes |-> ws]

\* The operation raised no event.
NoEvent ==
    [fired |-> FALSE, status |-> {}, average |-> ZeroSample,
     regs |-> [r \in OffsetRegs |-> 0], writes |-> << >>]

\* The writeCommand calls of calibrateEnd, in program order.
OffsetWrites(avg) ==
    << << "MAG_OFF_X_LSB", ToUint8(avg.x) >>,
       << "MAG_OFF_X_MSB", ToUint8(Shr8(avg.x)) >>,
       << "MAG_OFF_Y_LSB", ToUint8(avg.y) >>,
       << "MAG_OFF_Y_MSB", ToUint8(Shr8(avg.y)) >>,
       << "MAG_OFF_Z_LSB", ToUint8(avg.z) >>,
       << "MAG_OFF_Z_MSB", ToUint8(Shr8(avg.z)) >> >>

\* writeCommand(reg, value), one after the other, on registers rg.
RECURSIVE ApplyWrites(_, _)
ApplyWrites(rg, ws) ==
    IF ws = << >> THEN rg
    ELSE ApplyWrites([rg EXCEPT ![ws[1][1]] = ws[1][2]], Tail(ws))

(***************************************************************************)
(* The pieces of the operations.                                           *)
(***************************************************************************)
\* Mutant of CtorStatus: only the x axis is tested.
CtorStatus_XOnly(avg) ==
    IF avg.x = 0
    THEN {MICROBIT_COMPASS_STATUS_CALIBRATED}
             \ {MICROBIT_COMPASS_STATUS_CALIBRATED}
    ELSE {MICROBIT_COMPASS_STATUS_CALIBRATED}

\* Constructor: status = 0x01 (CALIBRATED), cleared when the fetched
\* offset is zero on all three axes.
CtorStatus(avg) ==
    IF avg.x = 0 /\ avg.y = 0 /\ avg.z = 0
    THEN {MICROBIT_COMPASS_STATUS_CALIBRATED}
             \ {MICROBIT_COMPASS_STATUS_CALIBRATED}
    ELSE {MICROBIT_COMPASS_STATUS_CALIBRATED}

\* Mutant of StartStatus: the status is overwritten, not ORed.
StartStatus_Overwrite(st) == {MICROBIT_COMPASS_STATUS_CALIBRATING}

\* calibrateStart: status |= CALIBRATING
StartStatus(st) == st \cup {MICROBIT_COMPASS_STATUS_CALIBRATING}

\* Mutant of EndStatus: CALIBRATING is not cleared.
EndStatus_KeepCalibrating(st) == st \cup {MICROBIT_COMPASS_STATUS_CALIBRATED}

\* calibrateEnd: status &= ~CALIBRATING; status |= CALIBRATED
EndStatus(st) ==
    (st \ {MICROBIT_COMPASS_STATUS_CALIBRATING})
        \cup {MICROBIT_COMPASS_STATUS_CALIBRATED}

\* Mutant of ClearStatus: every flag is cleared.
ClearStatus_All(st) == st \ st

\* clearCalibration: status &= ~CALIBRATED
ClearStatus(st) == st \ {MICROBIT_COMPASS_STATUS_CALIBRATED}

\* One axis of calibrateEnd: the int16 operands are promoted to int, added,
\* divided by two and the quotient is stored in an int16.
MidAxis(mx, mn) == ToInt16(CDiv2(mx + mn))

\* calibrateEnd: average = (maxSample + minSample) / 2, axis by axis.
Midpoint(mx, mn) ==
    Sample3(MidAxis(mx.x, mn.x), MidAxis(mx.y, mn.y), MidAxis(mx.z, mn.z))

\* idleTick: the running extents.
\* Mutant of TrackMin: the minimum extent is never lowered.
TrackMin_Stale(s, mn) == mn

TrackMin(s, mn) == Sample3(Min2(s.x, mn.x), Min2(s.y, mn.y), Min2(s.z, mn.z))
TrackMax(s, mx) == Sample3(Max2(s.x, mx.x), Max2(s.y, mx.y), Max2(s.z, mx.z))

\* idleTick: eventStartTime && ticks > eventStartTime + PERIOD
DeadlineElapsed(t, start) ==
    start # 0 /\ t > start + MICROBIT_COMPASS_CALIBRATE_PERIOD

\* What the caller observes of an operation.
Observed(o, e, r) == op' = o /\ evt' = e /\ ret' = r

(***************************************************************************)
(* Initial states: the state the constructor leaves.  The offset registers *)
(* hold what an earlier run persisted; minSample and maxSample are not     *)
(* initialised by the constructor.                                         *)
(***************************************************************************)
Init ==
    \E p \in PersistedOffsets, gmin \in Indeterminate, gmax \in Indeterminate :
        /\ regs = StoreOffset(p)
        /\ average = FetchOffset(regs)
        /\ status = CtorStatus(average)
        /\ eventStartTime = 0
        /\ ticks = 0
        /\ sample = ZeroSample
        /\ minSample = gmin
        /\ maxSample = gmax
        /\ int1 = FALSE
        /\ evt = << >>
        /\ atEvent = NoEvent
        /\ ret = NoRet
        /\ op = "construct"
        /\ inSession = FALSE
        /\ asyncAt = -1

(***************************************************************************)
(* Operations.                                                             *)
(***************************************************************************)
\* A compass object is constructed anew on the same sensor.
Construct ==
    \E gmin \in Indeterminate, gmax \in Indeterminate :
        /\ average' = FetchOffset(regs)
        /\ status' = CtorStatus(average')
        /\ eventStartTime' = 0
        /\ sample' = ZeroSample
        /\ minSample' = gmin
        /\ maxSample' = gmax
        /\ int1' = FALSE
        /\ inSession' = FALSE
        /\ asyncAt' = -1
        /\ Observed("construct", << >>, NoRet)
        /\ atEvent' = NoEvent
        /\ UNCHANGED << regs, ticks >>

\* The system clock advances.
Tick ==
    /\ ticks < MaxTick
    /\ ticks' = ticks + 1
    /\ int1' = FALSE
    /\ Observed("tick", << >>, NoRet)
    /\ atEvent' = NoEvent
    /\ UNCHANGED << status, eventStartTime, sample, average, minSample,
                    maxSample, regs, inSession, asyncAt >>

\* Mutant of CalibrateStartBody: no test of isCalibrating().
CalibrateStartBody_NoGuard ==
    /\ status' = StartStatus(status)
    /\ minSample' = sample
    /\ maxSample' = sample
    /\ evt' = << MICROBIT_COMPASS_EVT_CAL_START >>
    /\ atEvent' = EventView(status', average, regs, << >>)

\* The body of calibrateStart(), shared with calibrateAsync().
CalibrateStartBody ==
    IF isCalibrating
    THEN /\ evt' = << >>
         /\ atEvent' = NoEvent
         /\ UNCHANGED << status, minSample, maxSample >>
    ELSE /\ status' = StartStatus(status)
         /\ minSample' = sample
         /\ maxSample' = sample
         /\ evt' = << MICROBIT_COMPASS_EVT_CAL_START >>
         /\ atEvent' = EventView(status', average, regs, << >>)

calibrateStart ==
    /\ CalibrateStartBody
    /\ op' = "calibrateStart"
    /\ ret' = NoRet
    /\ int1' = FALSE
    /\ inSession' = TRUE
    /\ UNCHANGED << eventStartTime, ticks, sample, average, regs, asyncAt >>

\* Called only while the deadline can still elapse within MaxTick.
calibrateAsync ==
    /\ ticks + MICROBIT_COMPASS_CALIBRATE_PERIOD < MaxTick
    /\ eventStartTime' = ticks
    /\ CalibrateStartBody
    /\ op' = "calibrateAsync"
    /\ ret' = NoRet
    /\ int1' = FALSE
    /\ inSession' = TRUE
    /\ asyncAt' = ticks
    /\ UNCHANGED << ticks, sample, average, regs >>

\* Mutant of CalibrateEndSteps: the event is raised first.
CalibrateEndSteps_EmitFirst(st, avg, rg, mx, mn) ==
    LET a1 == Midpoint(mx, mn)
        s1 == EndStatus(st)
        ws == OffsetWrites(a1)
        r1 == ApplyWrites(rg, ws)
    IN  [average |-> a1, status |-> s1, regs |-> r1,
         atEvent |-> EventView(st, avg, rg, << >>)]

\* The statements of calibrateEnd() in program order: the offset, the two
\* status updates, the six register writes, then the event.
CalibrateEndSteps(st, avg, rg, mx, mn) ==
    LET a1 == Midpoint(mx, mn)
        s1 == EndStatus(st)
        ws == OffsetWrites(a1)
        r1 == ApplyWrites(rg, ws)
    IN  [average |-> a1, status |-> s1, regs |-> r1,
         atEvent |-> EventView(s1, a1, r1, ws)]

\* The body of calibrateEnd(), shared with idleTick().
CalibrateEndBody(mx, mn) ==
    LET e == CalibrateEndSteps(status, average, regs, mx, mn)
    IN  /\ average' = e.average
        /\ status' = e.status
        /\ regs' = e.regs
        /\ evt' = << MICROBIT_COMPASS_EVT_CAL_END >>
        /\ atEvent' = e.atEvent

calibrateEnd ==
    /\ CalibrateEndBody(maxSample, minSample)
    /\ op' = "calibrateEnd"
    /\ ret' = NoRet
    /\ int1' = FALSE
    /\ inSession' = FALSE
    /\ asyncAt' = -1
    /\ UNCHANGED << eventStartTime, ticks, sample, minSample, maxSample >>

clearCalibration ==
    /\ regs' = ClearedRegs(regs)
    /\ status' = ClearStatus(status)
    /\ int1' = FALSE
    /\ Observed("clearCalibration", << >>, NoRet)
    /\ atEvent' = NoEvent
    /\ UNCHANGED << eventStartTime, ticks, sample, average, minSample,
                    maxSample, inSession, asyncAt >>

heading ==
    /\ Observed("heading", HeadingEvents(status),
                HeadingResult(status, sample, average))
    /\ atEvent' = IF HeadingEvents(status) = << >>
                  THEN NoEvent
                  ELSE EventView(status, average, regs, << >>)
    /\ int1' = FALSE
    /\ UNCHANGED << status, eventStartTime, ticks, sample, average,
                    minSample, maxSample, regs, inSession, asyncAt >>

\* Mutant of DataReady: the interrupt line is not tested.
DataReady_Always(line) == TRUE

\* idleTick: if (int1), the data-ready line is active high.
DataReady(line) == line

\* idleTick(): ready is the data-ready line, r what the data registers hold.
idleTick ==
    \E ready \in BOOLEAN, r \in Readings :
        /\ int1' = ready
        /\ op' = "idleTick"
        /\ ret' = NoRet
        /\ IF ~DataReady(ready)
           THEN /\ evt' = << >>
                /\ atEvent' = NoEvent
                /\ UNCHANGED << status, eventStartTime, sample, average,
                                minSample, maxSample, regs, inSession,
                                asyncAt >>
           ELSE /\ sample' = r
                /\ IF ~isCalibrating
                   THEN /\ evt' = << >>
                        /\ atEvent' = NoEvent
                        /\ UNCHANGED << status, eventStartTime, average,
                                        minSample, maxSample, regs,
                                        inSession, asyncAt >>
                   ELSE /\ minSample' = TrackMin(r, minSample)
                        /\ maxSample' = TrackMax(r, maxSample)
                        /\ IF DeadlineElapsed(ticks, eventStartTime)
                           THEN /\ eventStartTime' = 0
                                /\ CalibrateEndBody(maxSample', minSample')
                                /\ inSession' = FALSE
                                /\ asyncAt' = -1
                           ELSE /\ evt' = << >>
                                /\ atEvent' = NoEvent
                                /\ UNCHANGED << status, eventStartTime,
                                                average, regs, inSession,
                                                asyncAt >>
        /\ UNCHANGED ticks

Next ==
    \/ Construct
    \/ Tick
    \/ calibrateStart
    \/ calibrateAsync
    \/ calibrateEnd
    \/ clearCalibration
    \/ heading
    \/ idleTick

Spec == Init /\ [][Next]_vars

(***************************************************************************)
(* Shorthands used by the properties.                                      *)
(***************************************************************************)
\* The last operation ran calibrateEnd(): called directly, or by idleTick()
\* on an elapsed deadline.
EndRan ==
    \/ op = "calibrateEnd"
    \/ (op = "idleTick" /\ evt = << MICROBIT_COMPASS_EVT_CAL_END >>)

BothFlags == isCalibrated /\ isCalibrating

(***************************************************************************)
(* C1.  The claim: CALIBRATED and CALIBRATING are never both set, in any   *)
(* reachable state.                                                        *)
(***************************************************************************)
C1_NeverBoth == ~BothFlags

\* C1 as amended: both flags are set only by a calibrateStart() or
\* calibrateAsync() issued while CALIBRATED was set and CALIBRATING clear
\* (a re-calibration); no step sets CALIBRATED and leaves CALIBRATING set;
\* after calibrateEnd() the status is CALIBRATED alone.
C1_BothOnlyWhileRecalibrating ==
    [][ /\ (BothFlags' /\ ~BothFlags) =>
              /\ isCalibrated /\ ~isCalibrating
              /\ op' \in {"calibrateStart", "calibrateAsync"}
        /\ (isCalibrated' /\ ~isCalibrated) => ~isCalibrating'
        /\ EndRan' => status' = {MICROBIT_COMPASS_STATUS_CALIBRATED}
      ]_vars

\* A re-calibration in progress with both flags set, polled at least once.
C1_Witness == BothFlags /\ inSession /\ op = "idleTick" /\ int1

(***************************************************************************)
(* C2.  The claim: after calibrateAsync() at tick T, with no manual        *)
(* calibrateEnd() since, an idleTick() that sees data ready at a tick      *)
(* >= T + MICROBIT_COMPASS_CALIBRATE_PERIOD ends the calibration:          *)
(* CALIBRATED set, CALIBRATING clear, eventStartTime zero.                 *)
(***************************************************************************)
C2_EndsAtDeadline ==
    [][ ( /\ op' = "idleTick"
          /\ int1'
          /\ asyncAt >= 0
          /\ ticks >= asyncAt + MICROBIT_COMPASS_CALIBRATE_PERIOD )
        => ( /\ isCalibrated'
             /\ ~isCalibrating'
             /\ eventStartTime' = 0 )
      ]_vars

(***************************************************************************)
(* C3.  Runs without a manual calibrateEnd(), in which the tick counter    *)
(* keeps advancing (up to MaxTick) and idleTick() keeps being invoked with *)
(* data ready.                                                             *)
(***************************************************************************)
IdleTickReady == idleTick /\ int1'

LiveNext ==
    \/ Tick
    \/ calibrateStart
    \/ calibrateAsync
    \/ clearCalibration
    \/ heading
    \/ idleTick

LiveSpec ==
    Init /\ [][LiveNext]_vars /\ WF_vars(Tick) /\ WF_vars(IdleTickReady)

\* C3.  The claim: after calibrateAsync() at any tick, tick 0 included,
\* eventually a calibration-end notification is emitted and isCalibrating()
\* is false, without a manual calibrateEnd().
C3_AsyncEventuallyEnds ==
    [](op = "calibrateAsync" =>
          <>(evt = << MICROBIT_COMPASS_EVT_CAL_END >> /\ ~isCalibrating))

(***************************************************************************)
(* C4.  Offset symmetry.                                                   *)
(***************************************************************************)
Axes == {"x", "y", "z"}

ExtentsOrdered == \A a \in Axes : minSample[a] <= maxSample[a]

\* q is sum / 2 rounded toward zero: within one half of sum / 2 and never
\* larger in magnitude.
IsTruncatedHalf(q, sum) == Abs(sum - 2 * q) <= 1 /\ Abs(2 * q) <= Abs(sum)

\* C4.  Whenever calibrateEnd() has just run on extents with
\* minExtent <= maxExtent on every axis, each axis of calibrationOffset is
\* (min + max) / 2 of that axis alone, truncated toward zero, computed on
\* the exact sum (no 16-bit wrap).
C4_OffsetIsTruncatedMidpoint ==
    (EndRan /\ ExtentsOrdered) =>
        \A a \in Axes : IsTruncatedHalf(average[a], minSample[a] + maxSample[a])

\* calibrateEnd() has run on ordered extents whose sum is negative and odd
\* on one axis and beyond the int16 range on another.
C4_Witness ==
    /\ EndRan
    /\ ExtentsOrdered
    /\ \E a \in Axes : /\ minSample[a] + maxSample[a] < 0
                       /\ (minSample[a] + maxSample[a]) % 2 = 1
    /\ \E a \in Axes : minSample[a] + maxSample[a] > 32767

(***************************************************************************)
(* C5.  Idempotent start.                                                  *)
(***************************************************************************)
StartCalled == op \in {"calibrateStart", "calibrateAsync"}

\* C5.  A calibrateStart() (also through calibrateAsync()) made while
\* CALIBRATING is set leaves minSample and maxSample unchanged and emits no
\* notification; a calibration-start notification is emitted exactly by the
\* steps that take CALIBRATING from clear to set, one per step.
C5_StartIsIdempotent ==
    [][ /\ (StartCalled' /\ isCalibrating) =>
              /\ minSample' = minSample
              /\ maxSample' = maxSample
              /\ evt' = << >>
        /\ (\E i \in DOMAIN evt' : evt'[i] = MICROBIT_COMPASS_EVT_CAL_START)
              <=> (~isCalibrating /\ isCalibrating')
        /\ (~isCalibrating /\ isCalibrating') =>
              evt' = << MICROBIT_COMPASS_EVT_CAL_START >>
      ]_vars

\* A second calibrateStart() in a session whose extents have moved away
\* from the current sample.
C5_Witness ==
    /\ op = "calibrateStart"
    /\ evt = << >>
    /\ isCalibrating
    /\ minSample # sample
    /\ maxSample # sample

(***************************************************************************)
(* C6.  Status during a session.                                           *)
(***************************************************************************)
\* C6.  Between a calibrateStart() and the next calibrateEnd() (manual or
\* by the deadline) isCalibrating() is true, whatever else is called; right
\* after a calibrateEnd() isCalibrating() is false and isCalibrated() true.
C6_StatusDuringSession ==
    /\ inSession => isCalibrating
    /\ EndRan => (~isCalibrating /\ isCalibrated)

\* A session that has seen clearCalibration() and is still calibrating.
C6_Witness ==
    inSession /\ isCalibrating /\ ~isCalibrated /\ op = "clearCalibration"

(***************************************************************************)
(* C7.  Heading sentinel priority.                                         *)
(***************************************************************************)
\* C7.  heading() called with CALIBRATING set returns the
\* calibration-in-progress sentinel, whether or not CALIBRATED is set.
C7_CalibratingSentinelFirst ==
    (op = "heading" /\ isCalibrating) => ret = MICROBIT_COMPASS_IS_CALIBRATING

\* heading() called while calibrating and never calibrated.
C7_Witness ==
    /\ op = "heading"
    /\ isCalibrating
    /\ ~isCalibrated
    /\ ret = MICROBIT_COMPASS_IS_CALIBRATING

(***************************************************************************)
(* C8.  clearCalibration.                                                  *)
(***************************************************************************)
\* C8.  clearCalibration() leaves CALIBRATING as it was, clears CALIBRATED,
\* leaves all six offset registers zero (so each axis reads back zero) and
\* does not change minSample, maxSample, sample or eventStartTime.
C8_ClearCalibrationFrame ==
    [][ op' = "clearCalibration" =>
          /\ isCalibrating' = isCalibrating
          /\ ~isCalibrated'
          /\ \A r \in OffsetRegs : regs'[r] = 0
          /\ FetchOffset(regs') = ZeroSample
          /\ minSample' = minSample
          /\ maxSample' = maxSample
          /\ sample' = sample
          /\ eventStartTime' = eventStartTime
      ]_vars

\* clearCalibration() during an asynchronous session, over registers that
\* held a non-zero high byte.
C8_Witness ==
    /\ op = "clearCalibration"
    /\ isCalibrating
    /\ eventStartTime # 0
    /\ average.x >= 256
    /\ \A r \in OffsetRegs : regs[r] = 0

(***************************************************************************)
(* C9.  State after construction.                                          *)
(***************************************************************************)
\* The signed 16-bit value two register bytes hold.
Signed16(msb, lsb) ==
    IF msb >= 128 THEN msb * 256 + lsb - 65536 ELSE msb * 256 + lsb

PersistedAxis(a) ==
    CASE a = "x" -> Signed16(regs["MAG_OFF_X_MSB"], regs["MAG_OFF_X_LSB"])
      [] a = "y" -> Signed16(regs["MAG_OFF_Y_MSB"], regs["MAG_OFF_Y_LSB"])
      [] a = "z" -> Signed16(regs["MAG_OFF_Z_MSB"], regs["MAG_OFF_Z_LSB"])

\* C9.  Right after construction: CALIBRATED alone if the persisted offset
\* is non-zero on some axis, no flag otherwise; calibrationOffset is the
\* persisted offset and eventStartTime is zero.
C9_StateAfterConstruction ==
    op = "construct" =>
        /\ status = IF \E a \in Axes : PersistedAxis(a) # 0
                    THEN {MICROBIT_COMPASS_STATUS_CALIBRATED}
                    ELSE {}
        /\ \A a \in Axes : average[a] = PersistedAxis(a)
        /\ eventStartTime = 0

\* Constructed anew, after the clock has run, on a sensor whose persisted
\* offset is non-zero on z only.
C9_Witness ==
    /\ op = "construct"
    /\ ticks > 0
    /\ isCalibrated
    /\ average.x = 0
    /\ average.y = 0
    /\ average.z # 0

(***************************************************************************)
(* C10.  Heading values.                                                   *)
(***************************************************************************)
\* round(10000 * sin(k degrees)), k = 0 .. 90.
SinTab ==
    << 0, 175, 349, 523, 698, 872, 1045, 1219, 1392, 1564, 1736, 1908, 2079,
       2250, 2419, 2588, 2756, 2924, 3090, 3256, 3420, 3584, 3746, 3907,
       4067, 4226, 4384, 4540, 4695, 4848, 5000, 5150, 5299, 5446, 5592,
       5736, 5878, 6018, 6157, 6293, 6428, 6561, 6691, 6820, 6947, 7071,
       7193, 7314, 7431, 7547, 7660, 7771, 7880, 7986, 8090, 8192, 8290,
       8387, 8480, 8572, 8660, 8746, 8829, 8910, 8988, 9063, 9135, 9205,
       9272, 9336, 9397, 9455, 9511, 9563, 9613, 9659, 9703, 9744, 9781,
       9816, 9848, 9877, 9903, 9925, 9945, 9962, 9976, 9986, 9994, 9998,
       10000 >>

SinDeg(a) ==
    LET m == a % 360
    IN  IF m <= 90 THEN SinTab[m + 1]
        ELSE IF m <= 180 THEN SinTab[180 - m + 1]
        ELSE IF m <= 270 THEN -SinTab[m - 180 + 1]
        ELSE -SinTab[360 - m + 1]

CosDeg(a) == SinDeg(a + 90)

\* h is what "360 minus the angle of (dx, dy) in [0, 360), truncated" gives:
\* 360 for the angle 0, else the angle lies in (359 - h, 360 - h].
InSector(dx, dy, h) ==
    IF dy = 0 /\ dx >= 0 THEN h = 360
    ELSE /\ h \in 0..359
         /\ CosDeg(359 - h) * dy - SinDeg(359 - h) * dx > 0
         /\ dx * SinDeg(360 - h) - dy * CosDeg(360 - h) >= 0
         /\ dx * CosDeg(360 - h) + dy * SinDeg(360 - h) > 0

CorrectedX == sample.x - average.x
CorrectedY == sample.y - average.y

\* C10.  heading() called with CALIBRATED set and CALIBRATING clear returns
\* 270 for the corrected vector (0, 10), 180 for (-10, 0), 90 for (0, -10),
\* and in general 360 minus the atan2 angle (degrees, in [0, 360)),
\* truncated; the value is fixed by the x and y axes alone.
C10_HeadingValue ==
    (op = "heading" /\ isCalibrated /\ ~isCalibrating) =>
        /\ ret.tag = "degrees"
        /\ (CorrectedX = 0 /\ CorrectedY = 10) => ret.deg = 270
        /\ (CorrectedX = -10 /\ CorrectedY = 0) => ret.deg = 180
        /\ (CorrectedX = 0 /\ CorrectedY = -10) => ret.deg = 90
        /\ InSector(CorrectedX, CorrectedY, ret.deg)

\* heading() on the corrected vector (0, -10), with a non-zero offset.
C10_Witness ==
    /\ op = "heading"
    /\ isCalibrated
    /\ ~isCalibrating
    /\ CorrectedX = 0
    /\ CorrectedY = -10
    /\ average # ZeroSample
    /\ ret = Degrees(90)

(***************************************************************************)
(* C11.  A poll without data ready.                                        *)
(***************************************************************************)
\* C11.  An idleTick() that finds the data-ready line low changes nothing:
\* sample, extents, offset, status, deadline and registers are unchanged and
\* nothing is emitted, also when CALIBRATING is set and the deadline has
\* elapsed.
C11_PollWithoutDataIsNoOp ==
    [][ (op' = "idleTick" /\ ~int1') =>
          /\ UNCHANGED << sample, minSample, maxSample, average, status,
                          eventStartTime, regs >>
          /\ evt' = << >>
      ]_vars

\* A poll without data ready, made while calibrating, after the deadline.
C11_Witness ==
    /\ op = "idleTick"
    /\ ~int1
    /\ isCalibrating
    /\ DeadlineElapsed(ticks, eventStartTime)

(***************************************************************************)
(* C12.  Persistence round trip.                                           *)
(***************************************************************************)
\* Offsets on both sides of every byte and sign boundary.
WideValues ==
    { -32768, -32767, -257, -256, -255, -129, -128, -1, 0, 1, 127, 128,
      255, 256, 257, 32766, 32767 }

\* The state after construction on cleared registers, a poll that read s
\* and a calibrateStart(): a session whose extents are both s.
RoundTripInit ==
    \E vx \in WideValues, vy \in WideValues, vz \in WideValues :
        /\ regs = StoreOffset(ZeroSample)
        /\ average = FetchOffset(regs)
        /\ status = StartStatus(CtorStatus(average))
        /\ eventStartTime = 0
        /\ ticks = 0
        /\ sample = Sample3(vx, vy, vz)
        /\ minSample = sample
        /\ maxSample = sample
        /\ int1 = FALSE
        /\ evt = << MICROBIT_COMPASS_EVT_CAL_START >>
        /\ atEvent = EventView(status, average, regs, << >>)
        /\ ret = NoRet
        /\ op = "calibrateStart"
        /\ inSession = TRUE
        /\ asyncAt = -1

RoundTripNext ==
    \/ calibrateEnd
    \/ Construct

RoundTripSpec == RoundTripInit /\ [][RoundTripNext]_vars

\* C12.  After calibrateEnd() the three read16 calls of the constructor,
\* applied to the offset registers, give back calibrationOffset exactly, on
\* X, Y and Z, for negative offsets too; an object constructed next holds
\* the same calibrationOffset.
C12_PersistedOffsetReadsBack ==
    [][ /\ EndRan' => FetchOffset(regs') = average'
        /\ (EndRan /\ op' = "construct") => average' = average
      ]_vars

\* Constructed on the registers calibrateEnd() wrote for the most negative
\* offset, for -1 and for a positive offset of more than one byte.
C12_Witness ==
    /\ op = "construct"
    /\ average = Sample3(-32768, -1, 257)
    /\ isCalibrated

(***************************************************************************)
(* C13.  calibrateStart frame.                                             *)
(***************************************************************************)
\* C13.  A calibrateStart() made while CALIBRATING is clear sets
\* CALIBRATING and minSample = maxSample = sample; CALIBRATED, the offset,
\* the sample, the deadline and the offset registers are unchanged.
C13_StartFrame ==
    [][ (op' = "calibrateStart" /\ ~isCalibrating) =>
          /\ isCalibrating'
          /\ minSample' = sample
          /\ maxSample' = sample
          /\ isCalibrated' = isCalibrated
          /\ UNCHANGED << average, sample, eventStartTime, regs >>
      ]_vars

\* A session started over an earlier calibration, a stale deadline and
\* extents left by an earlier session.
C13_Witness ==
    /\ op = "calibrateStart"
    /\ evt = << MICROBIT_COMPASS_EVT_CAL_START >>
    /\ BothFlags
    /\ average # ZeroSample
    /\ sample # ZeroSample

(***************************************************************************)
(* C14.  The state at the calibration-end notification.                    *)
(***************************************************************************)
\* The signed 16-bit value registers rg hold for axis a.
AxisIn(rg, a) ==
    CASE a = "x" -> Signed16(rg["MAG_OFF_X_MSB"], rg["MAG_OFF_X_LSB"])
      [] a = "y" -> Signed16(rg["MAG_OFF_Y_MSB"], rg["MAG_OFF_Y_LSB"])
      [] a = "z" -> Signed16(rg["MAG_OFF_Z_MSB"], rg["MAG_OFF_Z_LSB"])

\* C14.  When calibrateEnd() raises the calibration-end notification the
\* new offset is in place, CALIBRATING is clear, CALIBRATED is set and the
\* six offset registers hold the new offset, written X, Y, Z, low byte
\* before high byte; heading() called at that point returns a degree value.
C14_StateAtEndEvent ==
    EndRan =>
        /\ atEvent.fired
        /\ atEvent.average = average
        /\ \A a \in Axes :
              ExtentsOrdered =>
                  IsTruncatedHalf(atEvent.average[a],
                                  minSample[a] + maxSample[a])
        /\ atEvent.status = {MICROBIT_COMPASS_STATUS_CALIBRATED}
        /\ \A a \in Axes : AxisIn(atEvent.regs, a) = average[a]
        /\ [i \in 1..Len(atEvent.writes) |-> atEvent.writes[i][1]]
              = << "MAG_OFF_X_LSB", "MAG_OFF_X_MSB", "MAG_OFF_Y_LSB",
                   "MAG_OFF_Y_MSB", "MAG_OFF_Z_LSB", "MAG_OFF_Z_MSB" >>
        /\ HeadingResult(atEvent.status, sample, atEvent.average).tag
              = "degrees"

\* A deadline-ended re-calibration that replaced a non-zero offset.
C14_Witness ==
    /\ op = "idleTick"
    /\ EndRan
    /\ atEvent.fired
    /\ atEvent.average # ZeroSample
    /\ \E a \in Axes : atEvent.average[a] < 0

(***************************************************************************)
(* C15.  The current sample lies within the extents while calibrating.     *)
(***************************************************************************)
\* C15.  In every reachable state in which CALIBRATING is set, on each of
\* the three axes the minimum extent is at most the current sample and the
\* current sample is at most the maximum extent.
C15_SampleWithinExtents ==
    isCalibrating =>
        \A a \in Axes :
            /\ minSample[a] <= sample[a]
            /\ sample[a] <= maxSample[a]

\* A poll during calibration left the sample strictly inside the extents of
\* one axis, and on another axis at the minimum, below the maximum.
C15_Witness ==
    /\ isCalibrating
    /\ op = "idleTick"
    /\ \E a \in Axes : minSample[a] < sample[a] /\ sample[a] < maxSample[a]
    /\ \E a \in Axes : minSample[a] = sample[a] /\ sample[a] < maxSample[a]

(***************************************************************************)
(* C16.  Sessions without a deadline.                                      *)
(***************************************************************************)
\* C16.  A calibration session started with calibrateStart(), in which
\* calibrateAsync() was never called, is never ended by idleTick(): a poll
\* that ends the calibration is taken in a session that calibrateAsync()
\* gave a deadline.
C16_OnlyAsyncSessionEndsAtPoll ==
    [][ (op' = "idleTick" /\ EndRan') => asyncAt >= 0 ]_vars

(***************************************************************************)
(* C17.  Calibration across a restart.                                     *)
(***************************************************************************)
\* C17.  An object constructed on the offset registers that a completed
\* calibrateEnd() left, with no clearCalibration() in between, reports
\* isCalibrated() true and holds the same calibrationOffset, whatever the
\* extents of the completed session were.
C17_CalibrationSurvivesRestart ==
    [][ (EndRan /\ op' = "construct")
            => (isCalibrated' /\ average' = average) ]_vars

(***************************************************************************)
(* C18.  Alternation of the calibration notifications.                     *)
(***************************************************************************)
\* C18.  Every calibration-end notification is raised in a session opened
\* by a calibration-start notification that no earlier calibration-end has
\* matched, and a step of an existing object that sets CALIBRATED is taken
\* from a state in which CALIBRATING was set.
C18_EndFollowsUnmatchedStart ==
    [][ /\ (evt' = << MICROBIT_COMPASS_EVT_CAL_END >>) => inSession
        /\ (op' # "construct" /\ isCalibrated' /\ ~isCalibrated)
               => isCalibrating ]_vars

(***************************************************************************)
(* C19.  Where the extents come from.                                      *)
(***************************************************************************)
\* Value v is one the sensor's data register of axis a has delivered.
SensorValue(a, v) == \E r \in Readings : r[a] = v

\* C19.  While calibrating, each axis of the minimum and of the maximum
\* extent holds a value that was read from the sensor's data registers;
\* the zero-initialised current sample never enters the extents.
C19_ExtentsAreSensorValues ==
    isCalibrating =>
        \A a \in Axes :
            /\ SensorValue(a, minSample[a])
            /\ SensorValue(a, maxSample[a])

(***************************************************************************)
(* C20.  The range of heading().                                           *)
(***************************************************************************)
\* C20.  Whenever CALIBRATED is set and CALIBRATING is clear, heading()
\* returns a degree value in 0..359, for every current sample and
\* calibration offset, a corrected vector along +x included.
C20_HeadingInRange ==
    (op = "heading" /\ isCalibrated /\ ~isCalibrating)
        => (ret.tag = "degrees" /\ ret.deg \in 0..359)

=============================================================================
